---- MODULE Spec2Model ----
(***************************************************************************)
(* Model of the rename/undo engine of massrenamer.py (MassRenamerApp).     *)
(*                                                                         *)
(* A file name is a sequence of one-character strings, so that strip,      *)
(* splitext, the removal of forbidden characters and the "_(k)" suffix are *)
(* computed character by character as the Python code computes them.       *)
(* Sequence indices are 1-based: index i of the model is lineIndex i-1 of  *)
(* the source and line number i of the user interface.                     *)
(***************************************************************************)
EXTENDS Integers, Sequences, FiniteSets, TLC

(***************************************************************************)
(* Bounds of the model.                                                    *)
(***************************************************************************)
MaxLen == 2        \* longest list of names typed into one text box
MaxRenames == 1    \* renames on the Rename button per run of the program
MaxExt == 1        \* external changes of the directory per run
MaxCrash == 1      \* crashes (followed by a restart) per run
MaxNames == 3      \* longest list of new names given to the conflict handling
MaxDepth == 1      \* handlers suspended in processEvents at the same time
MaxTotal == 6      \* longest loop of the specification of the progress label

(***************************************************************************)
(* Character sets, lines 32-38.                                            *)
(***************************************************************************)
ILLEGAL_CHARS_LINUX == {"/"}
ILLEGAL_CHARS_WINDOWS == {"/", "\\", ":", "*", "?", "\"", "<", ">", "|"}
ILLEGAL_CHARS_MACOS == {"/", ":"}
ILLEGAL_CHARS_IOS == {"/", ":"}
ILLEGAL_CHARS_ANDROID == {"/", "\\", ":", "*", "?", "\"", "<", ">", "|"}

Whitespace == {" "}

(***************************************************************************)
(* Sequence helpers standing for Python's built-ins.                       *)
(***************************************************************************)
Range(s) == {s[k] : k \in 1..Len(s)}

\* str.strip(): leading and trailing whitespace removed
RECURSIVE lstrip(_)
lstrip(l) ==
    IF l # <<>> /\ Head(l) \in Whitespace THEN lstrip(Tail(l)) ELSE l

RECURSIVE rstrip(_)
rstrip(l) ==
    IF l # <<>> /\ l[Len(l)] \in Whitespace
    THEN rstrip(SubSeq(l, 1, Len(l) - 1)) ELSE l

strip(l) == rstrip(lstrip(l))

\* str.rfind(ch) as a 1-based index, 0 when ch does not occur
rfind(p, ch) ==
    LET hits == {k \in 1..Len(p) : p[k] = ch}
    IN  IF hits = {} THEN 0 ELSE CHOOSE k \in hits : \A j \in hits : j <= k

\* os.path.splitext(p): the extension starts at the last dot of the last
\* path component, unless only dots precede it in that component
splitext(p) ==
    LET sepIndex == rfind(p, "/")
        dotIndex == rfind(p, ".")
    IN  IF /\ dotIndex > sepIndex
           /\ \E k \in (sepIndex + 1)..(dotIndex - 1) : p[k] # "."
        THEN <<SubSeq(p, 1, dotIndex - 1), SubSeq(p, dotIndex, Len(p))>>
        ELSE <<p, <<>>>>

DigitChars == <<"0", "1", "2", "3", "4", "5", "6", "7", "8", "9">>

\* str(count) for count >= 0
RECURSIVE str(_)
str(n) ==
    IF n < 10 THEN <<DigitChars[n + 1]>>
    ELSE str(n \div 10) \o <<DigitChars[(n % 10) + 1]>>

\* f"{base}_({count}){ext}"
suffixed_name(base, count, ext) ==
    base \o <<"_", "(">> \o str(count) \o <<")">> \o ext

\* a variant that removes the characters of the base set only
remove_chars_base_only(n, illegal_chars) ==
    SelectSeq(n, LAMBDA c : c \notin (illegal_chars \cap ILLEGAL_CHARS_LINUX))

\* "".join(c for c in n if c not in illegal_chars)
remove_chars(n, illegal_chars) ==
    SelectSeq(n, LAMBDA c : c \notin illegal_chars)

\* [l.strip() for l in text.splitlines() if l.strip()]
nonblank_lines(lines) ==
    SelectSeq([k \in 1..Len(lines) |-> strip(lines[k])], LAMBDA l : l # <<>>)

\* path.split("/")
RECURSIVE split_path(_, _)
split_path(p, cur) ==
    IF p = <<>> THEN <<cur>>
    ELSE IF Head(p) = "/" THEN <<cur>> \o split_path(Tail(p), <<>>)
         ELSE split_path(Tail(p), Append(cur, Head(p)))

\* the number of slashes posixpath.normpath keeps in front: one, or two when
\* the path starts with exactly two
initial_slashes(path) ==
    IF path = <<>> \/ Head(path) # "/" THEN 0
    ELSE IF Len(path) >= 2 /\ path[2] = "/" /\ ~(Len(path) >= 3 /\ path[3] = "/")
         THEN 2 ELSE 1

\* the loop of posixpath.normpath: empty and "." components are dropped, ".."
\* removes the component before it, is dropped at the root and is kept in
\* front of a relative path
RECURSIVE resolve_components(_, _, _)
resolve_components(comps, new_comps, slashes) ==
    IF comps = <<>> THEN new_comps
    ELSE LET comp == Head(comps)
         IN  IF comp = <<>> \/ comp = <<".">>
             THEN resolve_components(Tail(comps), new_comps, slashes)
             ELSE IF \/ comp # <<".", ".">>
                     \/ slashes = 0 /\ new_comps = <<>>
                     \/ new_comps # <<>> /\ new_comps[Len(new_comps)] = <<".", ".">>
             THEN resolve_components(Tail(comps), Append(new_comps, comp), slashes)
             ELSE resolve_components(Tail(comps),
                      IF new_comps = <<>> THEN new_comps
                      ELSE SubSeq(new_comps, 1, Len(new_comps) - 1), slashes)

\* "/".join(comps)
RECURSIVE join_path(_)
join_path(comps) ==
    IF comps = <<>> THEN <<>>
    ELSE IF Len(comps) = 1 THEN comps[1]
    ELSE comps[1] \o <<"/">> \o join_path(Tail(comps))

\* os.path.normpath(path) of posixpath
normpath(path) ==
    LET slashes == initial_slashes(path)
        body == join_path(resolve_components(split_path(path, <<>>), <<>>, slashes))
        result == [k \in 1..slashes |-> "/"] \o body
    IN  IF result = <<>> THEN <<".">> ELSE result

\* the directory the operating system finds at path, as its components from
\* the root; the process runs with the root as its current directory
realpath(path) == resolve_components(split_path(path, <<>>), <<>>, 1)

(***************************************************************************)
(* The world of the model.                                                 *)
(*                                                                         *)
(* One working folder is renamed in.  Its entries are kept in fs, a        *)
(* function from the entry's name to its content: 0 for a sub-directory,   *)
(* a positive file identity for a regular file.  Because every operation   *)
(* of one run works in that folder, a path os.path.join(folder, name) is   *)
(* represented by name; the empty name denotes the folder itself.          *)
(***************************************************************************)
WorkDir == <<"/", "w">>
ConfigDir == <<"/", "c">>          \* self.config_dir, line 1288

\* what the operator may have typed into the folder field
FolderTexts ==
    {<<>>, <<"/", "n">>, WorkDir, ConfigDir, <<"/", "c", "/">>,
     <<" ", "/", "c">>, <<"/", "w", "/", ".", ".", "/", "c">>}

\* the lines the operator may have typed into the two text boxes
OrigLines == {<<"a">>, <<"b">>, <<"d">>, <<"x">>}
NewLines == {<<"a">>, <<"x">>, <<"x", ":">>}

\* the settings of the character policy (Windows, macOS, iOS, Android)
SettingsChoices ==
    {[windows |-> TRUE, macos |-> TRUE, ios |-> TRUE, android |-> TRUE],
     [windows |-> FALSE, macos |-> FALSE, ios |-> FALSE, android |-> FALSE]}

\* names at which another program may create a file
ExternalNames == {<<"a">>, <<"x">>}

Dir == 0
InitialFs == (<<"a">> :> 1) @@ (<<"b">> :> 2) @@ (<<"d">> :> Dir)

\* os.path.isdir(folder)
isdir(folder) == realpath(folder) \in {realpath(WorkDir), realpath(ConfigDir)}

\* a variant that takes the empty name for a name that is not there
exists_entries_only(f, name) == name \in DOMAIN f

\* os.path.exists(os.path.join(folder, name))
exists(f, name) == name = <<>> \/ name \in DOMAIN f

\* os.path.isfile(os.path.join(folder, name))
isfile(f, name) == name \in DOMAIN f /\ f[name] # Dir

\* a variant that copies: the source stays where it was
move_keeps_source(f, src, dst) ==
    [n \in DOMAIN f \cup {dst} |-> IF n = dst THEN f[src] ELSE f[n]]

\* the directory after shutil.move(src, dst) succeeded: a rename that
\* replaces a file at dst; a directory at dst receives src inside it
move(f, src, dst) ==
    LET real_dst == IF dst \in DOMAIN f /\ f[dst] = Dir /\ src # dst
                    THEN dst \o <<"/">> \o src ELSE dst
    IN  [n \in (DOMAIN f \ {src}) \cup {real_dst} |->
            IF n = real_dst THEN f[src] ELSE f[n]]

\* whether shutil.move(src, dst) can only raise
move_raises(f, src, dst) ==
    \/ ~exists(f, src)
    \/ dst = <<>>
    \/ dst \in DOMAIN f /\ f[dst] = Dir /\ (dst \o <<"/">> \o src) \in DOMAIN f

(***************************************************************************)
(* The history file mass_renamer.history.                                  *)
(***************************************************************************)
NoFile == [exists |-> FALSE, valid |-> TRUE, content |-> <<>>]
CorruptFile == [exists |-> TRUE, valid |-> FALSE, content |-> <<>>]

\* json.dump(history, f) into a file opened with "w"
json_dump(history) == [exists |-> TRUE, valid |-> TRUE, content |-> history]

(***************************************************************************)
(* _get_and_validate_inputs, lines 1483-1527, up to its dialog.            *)
(***************************************************************************)
\* the active character policy, lines 1503-1511
illegal_chars_of(settings) ==
    ILLEGAL_CHARS_LINUX
    \cup (IF settings.windows THEN ILLEGAL_CHARS_WINDOWS ELSE {})
    \cup (IF settings.macos THEN ILLEGAL_CHARS_MACOS ELSE {})
    \cup (IF settings.ios THEN ILLEGAL_CHARS_IOS ELSE {})
    \cup (IF settings.android THEN ILLEGAL_CHARS_ANDROID ELSE {})

\* line 1513
found_illegal(names, illegal_chars) ==
    {ch \in UNION {Range(names[k]) : k \in 1..Len(names)} : ch \in illegal_chars}

\* a variant without the comparison of the two lengths
validation_error_lengths_unchecked(folder_text, o, n) ==
    LET folder == strip(folder_text)
    IN  IF folder = <<>> \/ ~isdir(folder) THEN "select_valid_folder"
        ELSE IF normpath(ConfigDir) = normpath(folder) THEN "forbidden_dir_msg"
        ELSE ""

\* a variant without the comparison with the configuration directory
validation_error_config_unchecked(folder_text, o, n) ==
    LET folder == strip(folder_text)
    IN  IF folder = <<>> \/ ~isdir(folder) THEN "select_valid_folder"
        ELSE IF Len(o) # Len(n) THEN "map_error_msg"
        ELSE ""

\* lines 1484-1500: the error the validation ends with, "" when it passes
validation_error(folder_text, o, n) ==
    LET folder == strip(folder_text)
    IN  IF folder = <<>> \/ ~isdir(folder) THEN "select_valid_folder"
        ELSE IF normpath(ConfigDir) = normpath(folder) THEN "forbidden_dir_msg"
        ELSE IF Len(o) # Len(n) THEN "map_error_msg"
        ELSE ""

(***************************************************************************)
(* _handle_name_conflicts, lines 1529-1583.                                *)
(***************************************************************************)
\* Counter(news)[name]
name_count(names, name) == Cardinality({k \in 1..Len(names) : names[k] = name})

\* a variant that forgets the duplicate check of lines 1537-1544
conflicting_indices_existing_only(names, f) ==
    {k \in 1..Len(names) : exists(f, names[k])}

\* a variant that forgets the check of lines 1532-1535 against the folder
conflicting_indices_duplicates_only(names, f) ==
    UNION {{k \in 1..Len(names) : names[k] = name} :
                name \in {m \in Range(names) : name_count(names, m) > 1}}

\* lines 1530-1544: names that exist in the folder, then duplicated names
conflicting_indices(names, f) ==
    {k \in 1..Len(names) : exists(f, names[k])}
    \cup UNION {{k \in 1..Len(names) : names[k] = name} :
                name \in {m \in Range(names) : name_count(names, m) > 1}}

\* a variant that visits the indices in descending order
RECURSIVE sorted_descending(_)
sorted_descending(S) ==
    IF S = {} THEN <<>>
    ELSE LET most == CHOOSE x \in S : \A y \in S : y <= x
         IN  <<most>> \o sorted_descending(S \ {most})

\* sorted(list(conflicting_indices))
RECURSIVE sorted(_)
sorted(S) ==
    IF S = {} THEN <<>>
    ELSE LET least == CHOOSE x \in S : \A y \in S : x <= y
         IN  <<least>> \o sorted(S \ {least})

\* a variant that checks the candidate against the folder only
RECURSIVE first_free_on_disk_only(_, _, _, _, _)
first_free_on_disk_only(base, ext, count, temp_news, f) ==
    LET new_name == suffixed_name(base, count, ext)
    IN  IF ~exists(f, new_name)
        THEN new_name
        ELSE first_free_on_disk_only(base, ext, count + 1, temp_news, f)

\* a variant that counts in steps of two
RECURSIVE first_free_steps_by_two(_, _, _, _, _)
first_free_steps_by_two(base, ext, count, temp_news, f) ==
    LET new_name == suffixed_name(base, count, ext)
    IN  IF ~exists(f, new_name) /\ new_name \notin Range(temp_news)
        THEN new_name
        ELSE first_free_steps_by_two(base, ext, count + 2, temp_news, f)

\* lines 1573-1580: the first free candidate, counting from count
RECURSIVE first_free(_, _, _, _, _)
first_free(base, ext, count, temp_news, f) ==
    LET new_name == suffixed_name(base, count, ext)
    IN  IF ~exists(f, new_name) /\ new_name \notin Range(temp_news)
        THEN new_name
        ELSE first_free(base, ext, count + 1, temp_news, f)

\* a variant that checks every candidate against the list as it was at
\* detection time instead of the working copy
RECURSIVE auto_resolve_checks_original_list(_, _, _, _)
auto_resolve_checks_original_list(conflict_list, names, temp_news, f) ==
    IF conflict_list = <<>> THEN temp_news
    ELSE LET index == Head(conflict_list)
             parts == splitext(names[index])
             new_name == first_free(parts[1], parts[2], 1, names, f)
         IN  auto_resolve_checks_original_list(Tail(conflict_list), names,
                          [temp_news EXCEPT ![index] = new_name], f)

\* a variant that writes the new name at the position the conflict has in
\* the list of conflicts instead of at its index in the list of names
RECURSIVE auto_resolve_writes_at_position(_, _, _, _)
auto_resolve_writes_at_position(conflict_list, names, temp_news, f) ==
    IF conflict_list = <<>> THEN temp_news
    ELSE LET index == Head(conflict_list)
             position == Cardinality({k \in conflicting_indices(names, f) :
                                         k <= index})
             parts == splitext(names[index])
             new_name == first_free(parts[1], parts[2], 1, temp_news, f)
         IN  auto_resolve_writes_at_position(Tail(conflict_list), names,
                          [temp_news EXCEPT ![position] = new_name], f)

\* lines 1570-1582: conflicts holds the conflicting indices in ascending
\* order, names the list at detection time, temp_news the working copy
RECURSIVE auto_resolve(_, _, _, _)
auto_resolve(conflict_list, names, temp_news, f) ==
    IF conflict_list = <<>> THEN temp_news
    ELSE LET index == Head(conflict_list)
             parts == splitext(names[index])
             new_name == first_free(parts[1], parts[2], 1, temp_news, f)
         IN  auto_resolve(Tail(conflict_list), names,
                          [temp_news EXCEPT ![index] = new_name], f)

(***************************************************************************)
(* State.                                                                  *)
(***************************************************************************)
VARIABLES
    fs,               \* the entries of the working folder
    history_file,     \* mass_renamer.history in the configuration directory
    rename_history,   \* self.rename_history: pairs <<currentPath, originalPath>>
    undo_enabled,     \* self.undo_button.isEnabled()
    log_text,         \* self.log_text: one record per line of outcome
    pc,               \* where the running handler waits: "idle", a dialog
                      \* ("invalid_chars", "conflict", "undo_confirm"), a loop
                      \* ("exec", "exec_write", "undo"), or "crashed"
    outcome,          \* how the last handler ended, "running" while one runs
    text_new,         \* self.text_new: the lines of the box of new names, as
                      \* the operator typed them before the last click on
                      \* Rename or as the program has rewritten them since
    origs, news,      \* the lists of the running rename
    validated,        \* the new names _get_and_validate_inputs returned
    illegal_chars,    \* illegal_chars: the policy the running rename read from
                      \* the settings
    conflicts,        \* conflicting indices, ascending
    temp_history,     \* temp_history of _execute_rename
    processed_count,  \* processed_count of the running loop
    total_files,      \* total_files of the running loop
    progress_label,   \* the progress label: whether it is shown, and its number
    stack,            \* the handlers suspended in QApplication.processEvents()
    fs_before,        \* history variable: fs when Rename was last clicked
    faults,           \* history variable: what went wrong since then, out of
                      \* "external" (another program changed the folder),
                      \* "move" (a move raised), "write" (a write of the
                      \* history file raised), "crash", "partial" (the
                      \* crash came between two pairs of a batch) and
                      \* "reentered" (a click was handled while a loop
                      \* waited in processEvents)
    refused,          \* history variable: undo was refused for this history
    moved,            \* history variable: the moves of the batch that succeeded
    crashed_at,       \* history variable: pc when the program last crashed
    renames, externals, crashes   \* counters that bound the run

locals == <<origs, news, validated, illegal_chars, conflicts, temp_history,
            processed_count, total_files>>
counters == <<renames, externals, crashes>>
vars == <<fs, history_file, rename_history, undo_enabled, log_text, text_new,
          pc, outcome, origs, news, validated, illegal_chars, conflicts, temp_history,
          processed_count, total_files, progress_label, stack, fs_before,
          faults, refused, moved, crashed_at, renames, externals, crashes>>

\* a line of the log: what happened (the symbol and the message key of the
\* line) to which line of the lists; cause is a history variable that tells
\* which call raised, the text of the exception that the line ends with does
\* not name the call
Line(kind, line, cause) == [kind |-> kind, line |-> line, cause |-> cause]

\* texts with a blank line, a line of spaces and spaces around a name
BlankLineRequests ==
    {[orig |-> <<<<"a">>, <<>>, <<"b">>>>, new |-> <<<<"x">>, <<"x", ":">>>>],
     [orig |-> <<<<"a">>, <<" ">>, <<"b">>>>, new |-> <<<<"x">>, <<>>, <<"x">>>>],
     [orig |-> <<<<" ", "a">>, <<"b", " ">>>>, new |-> <<<<>>, <<" ", "x">>>>]}

\* what the operator may have typed into the two text boxes: the same number
\* of lines in both, or fewer lines of new names than of original names
Requests ==
    UNION {[orig : [1..m -> OrigLines], new : [1..m -> NewLines]] : m \in 0..MaxLen}
    \cup {[orig |-> [k \in 1..m |-> <<"a">>], new |-> [k \in 1..(m - 1) |-> <<"x">>]] :
            m \in 1..MaxLen}
    \cup BlankLineRequests
    \cup {[orig |-> <<<<"b">>>>, new |-> <<<<"y", "/", ":">>>>]}

\* The program has been constructed (lines 1273-1296) either on a first
\* start, or on a start after a session that renamed a to x and left its
\* history file, which line 1293 has loaded.
Init ==
    /\ \/ /\ fs = InitialFs
          /\ history_file = NoFile
          /\ rename_history = <<>>
          /\ undo_enabled = FALSE
          /\ moved = <<>>
          /\ outcome = "started"
       \/ /\ fs = move(InitialFs, <<"a">>, <<"x">>)
          /\ history_file = json_dump(<<<<<<"x">>, <<"a">>>>>>)
          /\ rename_history = <<<<<<"x">>, <<"a">>>>>>
          /\ undo_enabled = TRUE
          /\ moved = <<<<<<"x">>, <<"a">>>>>>
          /\ outcome = "history_loaded"
    /\ log_text = <<>>
    /\ text_new = <<>>
    /\ pc = "idle"
    /\ origs = <<>> /\ news = <<>> /\ validated = <<>>
    /\ illegal_chars = {} /\ conflicts = <<>>
    /\ temp_history = <<>> /\ processed_count = 0 /\ total_files = 0
    /\ progress_label = [shown |-> FALSE, text |-> 0]
    /\ stack = <<>>
    /\ fs_before = InitialFs
    /\ faults = {} /\ refused = FALSE
    /\ crashed_at = "idle"
    /\ renames = 0 /\ externals = 0 /\ crashes = 0

\* lines 1471 and 1636: progress_label.hide()
hidden(label) == [label EXCEPT !.shown = FALSE]

\* the locals of a handler that has returned
Returned(result) ==
    /\ pc' = "idle"
    /\ outcome' = result
    /\ origs' = <<>> /\ news' = <<>> /\ validated' = <<>>
    /\ illegal_chars' = {} /\ conflicts' = <<>>
    /\ temp_history' = <<>> /\ processed_count' = 0 /\ total_files' = 0

(***************************************************************************)
(* _execute_rename, lines 1585-1633.                                       *)
(***************************************************************************)
\* a variant that leaves the history file of the batch before in place
ExecuteRenameKeepsFile(o, n, policy) ==
    IF Len(o) = 0
    THEN /\ log_text' = <<Line("done", 0, "")>>
         /\ pc' = "idle"
         /\ outcome' = "done"
         /\ origs' = <<>> /\ news' = <<>>
         /\ illegal_chars' = {} /\ conflicts' = <<>>
         /\ temp_history' = <<>> /\ processed_count' = 0 /\ total_files' = 0
         /\ progress_label' = hidden(progress_label)
         /\ UNCHANGED history_file
    ELSE /\ log_text' = <<>>
         /\ UNCHANGED history_file
         /\ temp_history' = <<>>
         /\ processed_count' = 0 /\ total_files' = Len(o)
         /\ progress_label' = [shown |-> TRUE, text |-> 0]
         /\ origs' = o /\ news' = n
         /\ illegal_chars' = policy /\ conflicts' = <<>>
         /\ pc' = "exec"
         /\ outcome' = "running"

\* lines 1586-1600: the part before the loop
ExecuteRename(o, n, policy) ==
    IF Len(o) = 0
    THEN /\ log_text' = <<Line("done", 0, "")>>
         /\ pc' = "idle"
         /\ outcome' = "done"
         /\ origs' = <<>> /\ news' = <<>>
         /\ illegal_chars' = {} /\ conflicts' = <<>>
         /\ temp_history' = <<>> /\ processed_count' = 0 /\ total_files' = 0
         /\ progress_label' = hidden(progress_label)
         /\ UNCHANGED history_file
    ELSE /\ log_text' = <<>>
         /\ history_file' = NoFile
         /\ temp_history' = <<>>
         /\ processed_count' = 0 /\ total_files' = Len(o)
         /\ progress_label' = [shown |-> TRUE, text |-> 0]
         /\ origs' = o /\ news' = n
         /\ illegal_chars' = policy /\ conflicts' = <<>>
         /\ pc' = "exec"
         /\ outcome' = "running"

\* lines 1617 and 1678: int((processed_count / total_files) * 100); for the
\* totals up to MaxTotal the float product lies on the same side of every
\* whole number as the exact quotient
percentage(processed, total) == (processed * 100) \div total

\* lines 1615-1619 and 1676-1680: the item is counted and the label set; the
\* events processed at the end are those of DispatchEvents
ItemProcessed(kind, k, cause) ==
    /\ log_text' = Append(log_text, Line(kind, k, cause))
    /\ processed_count' = processed_count + 1
    /\ progress_label' = [progress_label EXCEPT
                             !.text = percentage(processed_count + 1, total_files)]
    /\ UNCHANGED total_files

\* lines 1603-1604: the source is no file
ExecNotFound ==
    /\ pc = "exec" /\ processed_count < Len(origs)
    /\ ~isfile(fs, origs[processed_count + 1])
    /\ ItemProcessed("not_found", processed_count + 1, "")
    /\ UNCHANGED <<stack, text_new, fs, history_file, rename_history, undo_enabled, pc, outcome,
                   origs, news, validated, illegal_chars, conflicts,
                   temp_history, fs_before, faults, refused, moved, crashed_at,
                   counters>>

\* a variant that starts the record anew instead of appending to it
ExecMoveRecordsLastOnly ==
    /\ pc = "exec" /\ processed_count < Len(origs)
    /\ LET src == origs[processed_count + 1]
           dst == news[processed_count + 1]
       IN  /\ isfile(fs, src)
           /\ ~move_raises(fs, src, dst)
           /\ fs' = move(fs, src, dst)
           /\ temp_history' = <<<<dst, src>>>>
           /\ moved' = Append(moved, <<dst, src>>)
    /\ pc' = "exec_write"
    /\ UNCHANGED <<total_files, stack, progress_label, text_new, history_file, rename_history, undo_enabled, log_text, outcome,
                   origs, news, validated, illegal_chars, conflicts,
                   processed_count, fs_before, faults, refused, crashed_at,
                   counters>>

\* lines 1607-1608: the move succeeds and is recorded
ExecMove ==
    /\ pc = "exec" /\ processed_count < Len(origs)
    /\ LET src == origs[processed_count + 1]
           dst == news[processed_count + 1]
       IN  /\ isfile(fs, src)
           /\ ~move_raises(fs, src, dst)
           /\ fs' = move(fs, src, dst)
           /\ temp_history' = Append(temp_history, <<dst, src>>)
           /\ moved' = Append(moved, <<dst, src>>)
    /\ pc' = "exec_write"
    /\ UNCHANGED <<total_files, stack, progress_label, text_new, history_file, rename_history, undo_enabled, log_text, outcome,
                   origs, news, validated, illegal_chars, conflicts,
                   processed_count, fs_before, faults, refused, crashed_at, counters>>

\* a variant in which a failed move ends the loop
ExecMoveFailAborts ==
    /\ pc = "exec" /\ processed_count < Len(origs)
    /\ isfile(fs, origs[processed_count + 1])
    /\ log_text' = Append(log_text, Line("error", processed_count + 1, "move"))
    /\ processed_count' = Len(origs)
    /\ faults' = faults \cup {"move"}
    /\ UNCHANGED <<total_files, stack, progress_label, text_new, fs, history_file,
                   rename_history, undo_enabled, pc, outcome,
                   origs, news, validated, illegal_chars, conflicts,
                   temp_history, fs_before, refused, moved, crashed_at,
                   counters>>

\* lines 1607, 1612-1613: shutil.move raises
ExecMoveFail ==
    /\ pc = "exec" /\ processed_count < Len(origs)
    /\ isfile(fs, origs[processed_count + 1])
    /\ ItemProcessed("error", processed_count + 1, "move")
    /\ faults' = faults \cup {"move"}
    /\ UNCHANGED <<stack, text_new, fs, history_file, rename_history, undo_enabled, pc, outcome,
                   origs, news, validated, illegal_chars, conflicts,
                   temp_history, fs_before, refused, moved, crashed_at,
                   counters>>

\* a variant that writes the newest pair only
ExecWriteNewestOnly ==
    /\ pc = "exec_write"
    /\ history_file' = json_dump(<<temp_history[Len(temp_history)]>>)
    /\ ItemProcessed("ok", processed_count + 1, "")
    /\ pc' = "exec"
    /\ UNCHANGED <<stack, text_new, fs, rename_history, undo_enabled, outcome, origs, news,
                   validated, illegal_chars, conflicts, temp_history, fs_before,
                   faults, refused, moved, crashed_at, counters>>

\* a variant that leaves the writing of the history to the end of the batch
ExecWriteDeferred ==
    /\ pc = "exec_write"
    /\ ItemProcessed("ok", processed_count + 1, "")
    /\ pc' = "exec"
    /\ UNCHANGED <<stack, text_new, fs, history_file, rename_history, undo_enabled,
                   outcome, origs, news, validated, illegal_chars, conflicts,
                   temp_history, fs_before, faults, refused, moved, crashed_at,
                   counters>>

\* lines 1609-1611: the history file is rewritten in full
ExecWrite ==
    /\ pc = "exec_write"
    /\ history_file' = json_dump(temp_history)
    /\ ItemProcessed("ok", processed_count + 1, "")
    /\ pc' = "exec"
    /\ UNCHANGED <<stack, text_new, fs, rename_history, undo_enabled, outcome, origs, news,
                   validated, illegal_chars, conflicts, temp_history, fs_before,
                   faults, refused, moved, crashed_at, counters>>

\* lines 1609-1613: open or json.dump raises; the file is left as it was
\* (open failed) or truncated (the dump failed)
ExecWriteFail(left) ==
    /\ pc = "exec_write"
    /\ history_file' = left
    /\ ItemProcessed("error", processed_count + 1, "write")
    /\ faults' = faults \cup {"write"}
    /\ pc' = "exec"
    /\ UNCHANGED <<stack, text_new, fs, rename_history, undo_enabled, outcome, origs, news,
                   validated, illegal_chars, conflicts, temp_history, fs_before,
                   refused, moved, crashed_at, counters>>

\* lines 1621-1623: after the loop
ExecFinish ==
    /\ pc = "exec" /\ processed_count = Len(origs)
    /\ rename_history' = rename_history \o temp_history
    /\ undo_enabled' = IF rename_history' # <<>> THEN TRUE ELSE undo_enabled
    /\ log_text' = Append(log_text, Line("done", 0, ""))
    /\ Returned("done")
    /\ UNCHANGED <<stack, progress_label, text_new, fs, history_file, fs_before, faults, refused, moved, crashed_at,
                   counters>>

(***************************************************************************)
(* rename, lines 1469-1481, with its two dialogs.                          *)
(***************************************************************************)
\* lines 1529-1562 and line 1481: detection; without a conflict the list is
\* returned as it is and _execute_rename starts, else the dialog opens
HandleNameConflicts(o, n, policy) ==
    /\ validated' = n
    /\ IF conflicting_indices(n, fs) = {}
       THEN ExecuteRename(o, n, policy)
       ELSE /\ pc' = "conflict"
            /\ outcome' = "running"
            /\ origs' = o /\ news' = n
            /\ conflicts' = sorted(conflicting_indices(n, fs))
            /\ illegal_chars' = policy
            /\ temp_history' = <<>> /\ processed_count' = 0 /\ total_files' = 0
            /\ progress_label' = hidden(progress_label)
            /\ UNCHANGED <<history_file, log_text>>

\* a variant that keeps the record of the batch before
RenameClickKeepsHistory(folder_text, typed_orig, typed_new, settings) ==
    /\ pc = "idle" /\ renames < MaxRenames
    /\ renames' = renames + 1
    /\ UNCHANGED rename_history
    /\ fs_before' = fs /\ refused' = FALSE /\ moved' = <<>>
    /\ faults' = IF stack # <<>> THEN {"reentered"} ELSE {}
    /\ text_new' = typed_new
    /\ LET o == nonblank_lines(typed_orig)
           n == nonblank_lines(typed_new)
           error == validation_error(folder_text, o, n)
           policy == illegal_chars_of(settings)
       IN  IF error # ""
           THEN /\ Returned(error)
                /\ progress_label' = hidden(progress_label)
                /\ UNCHANGED <<history_file, log_text>>
           ELSE IF found_illegal(n, policy) # {}
           THEN /\ pc' = "invalid_chars"
                /\ outcome' = "running"
                /\ origs' = o /\ news' = n /\ validated' = <<>>
                /\ illegal_chars' = policy
                /\ conflicts' = <<>>
                /\ temp_history' = <<>> /\ processed_count' = 0 /\ total_files' = 0
                /\ progress_label' = hidden(progress_label)
                /\ UNCHANGED <<history_file, log_text>>
           ELSE HandleNameConflicts(o, n, policy)
    /\ UNCHANGED <<stack, fs, undo_enabled, crashed_at, externals, crashes>>

\* the Rename button: lines 1470-1521
RenameClick(folder_text, typed_orig, typed_new, settings) ==
    /\ pc = "idle" /\ renames < MaxRenames
    /\ renames' = renames + 1
    /\ rename_history' = <<>>
    /\ fs_before' = fs /\ refused' = FALSE /\ moved' = <<>>
    /\ faults' = IF stack # <<>> THEN {"reentered"} ELSE {}
    /\ text_new' = typed_new
    /\ LET o == nonblank_lines(typed_orig)
           n == nonblank_lines(typed_new)
           error == validation_error(folder_text, o, n)
           policy == illegal_chars_of(settings)
       IN  IF error # ""
           THEN /\ Returned(error)
                /\ progress_label' = hidden(progress_label)
                /\ UNCHANGED <<history_file, log_text>>
           ELSE IF found_illegal(n, policy) # {}
           THEN /\ pc' = "invalid_chars"
                /\ outcome' = "running"
                /\ origs' = o /\ news' = n /\ validated' = <<>>
                /\ illegal_chars' = policy
                /\ conflicts' = <<>>
                /\ temp_history' = <<>> /\ processed_count' = 0 /\ total_files' = 0
                /\ progress_label' = hidden(progress_label)
                /\ UNCHANGED <<history_file, log_text>>
           ELSE HandleNameConflicts(o, n, policy)
    /\ UNCHANGED <<stack, fs, undo_enabled, crashed_at, externals, crashes>>

\* lines 1522-1524: the operator accepts the removal
CharsYes ==
    /\ pc = "invalid_chars"
    /\ text_new' = [k \in 1..Len(news) |-> remove_chars(news[k], illegal_chars)]
    /\ HandleNameConflicts(origs,
           [k \in 1..Len(news) |-> remove_chars(news[k], illegal_chars)],
           illegal_chars)
    /\ UNCHANGED <<stack, fs, rename_history, undo_enabled, fs_before, faults, refused, moved,
                   crashed_at, counters>>

\* lines 1525-1526: the operator declines
CharsNo ==
    /\ pc = "invalid_chars"
    /\ Returned("chars_declined")
    /\ UNCHANGED <<stack, progress_label, text_new, fs, history_file, rename_history, undo_enabled, log_text,
                   fs_before, faults, refused, moved, crashed_at, counters>>

\* lines 1569-1582 and line 1481: "Rename" in the conflict dialog
ConflictRename ==
    /\ pc = "conflict"
    /\ text_new' = auto_resolve(conflicts, news, news, fs)
    /\ ExecuteRename(origs, auto_resolve(conflicts, news, news, fs), illegal_chars)
    /\ UNCHANGED <<stack, fs, rename_history, undo_enabled, validated, fs_before,
                   faults, refused, moved, crashed_at, counters>>

\* a variant that reports the index as the line number
conflict_entry_line_is_index(names, position) ==
    [name |-> names[position], index |-> position - 1, line |-> position - 1]

\* line 1549: the entry of the name at a position (counted from 1) of the
\* list; index is counted from 0 as enumerate counts
conflict_entry(names, position) ==
    [name |-> names[position], index |-> position - 1, line |-> (position - 1) + 1]

\* lines 1564-1567: "List Errors"
ConflictList ==
    /\ pc = "conflict"
    /\ log_text' = [k \in 1..Len(conflicts) |->
                       Line("listed", conflict_entry(news, conflicts[k]).line, "")]
    /\ Returned("conflict_listed")
    /\ UNCHANGED <<stack, progress_label, text_new, fs, history_file, rename_history, undo_enabled, fs_before,
                   faults, refused, moved, crashed_at, counters>>

\* line 1568: "Cancel"
ConflictCancel ==
    /\ pc = "conflict"
    /\ Returned("conflict_cancelled")
    /\ UNCHANGED <<stack, progress_label, text_new, fs, history_file, rename_history, undo_enabled, log_text,
                   fs_before, faults, refused, moved, crashed_at, counters>>

(***************************************************************************)
(* undo, lines 1635-1698.                                                  *)
(***************************************************************************)
\* a variant that looks for the original paths instead of the current ones
all_files_exist_originals(history, f) ==
    \A k \in 1..Len(history) : exists(f, history[k][2])

\* lines 1641-1645
all_files_exist(history, f) ==
    \A k \in 1..Len(history) : exists(f, history[k][1])

\* the Undo button: lines 1636-1652
UndoClick ==
    /\ pc = "idle" /\ undo_enabled
    /\ progress_label' = hidden(progress_label)
    /\ IF rename_history = <<>>
       THEN outcome' = "nothing_to_undo" /\ UNCHANGED <<pc, refused>>
       ELSE IF ~all_files_exist(rename_history, fs)
       THEN outcome' = "undo_failed_msg" /\ refused' = TRUE /\ UNCHANGED pc
       ELSE outcome' = "running" /\ pc' = "undo_confirm" /\ UNCHANGED refused
    /\ faults' = IF stack # <<>> THEN faults \cup {"reentered"} ELSE faults
    /\ UNCHANGED <<stack, text_new, fs, history_file, rename_history, undo_enabled,
                   log_text, locals, fs_before, moved, crashed_at, counters>>

\* a variant that clears the log before it looks at the answer
UndoNoClearsLog ==
    /\ pc = "undo_confirm"
    /\ pc' = "idle"
    /\ outcome' = "undo_cancelled"
    /\ log_text' = <<>>
    /\ UNCHANGED <<stack, progress_label, text_new, fs, history_file, rename_history, undo_enabled,
                   locals, fs_before, faults, refused, moved, crashed_at, counters>>

\* lines 1655-1656: the operator answers No
UndoNo ==
    /\ pc = "undo_confirm"
    /\ pc' = "idle"
    /\ outcome' = "undo_cancelled"
    /\ UNCHANGED <<stack, progress_label, text_new, fs, history_file, rename_history, undo_enabled, log_text,
                   locals, fs_before, faults, refused, moved, crashed_at, counters>>

\* lines 1658-1667: the operator answers Yes
UndoYes ==
    /\ pc = "undo_confirm"
    /\ log_text' = <<Line("undoing", 0, "")>>
    /\ processed_count' = 0
    /\ total_files' = Len(rename_history)
    /\ progress_label' = IF Len(rename_history) = 0 THEN progress_label
                                                      ELSE [shown |-> TRUE, text |-> 0]
    /\ pc' = IF Len(rename_history) = 0 THEN "idle" ELSE "undo"
    /\ outcome' = IF Len(rename_history) = 0 THEN "nothing_to_undo" ELSE "running"
    /\ UNCHANGED <<stack, text_new, fs, history_file, rename_history, undo_enabled, origs, news,
                   validated, illegal_chars, conflicts, temp_history, fs_before,
                   faults, refused, moved, crashed_at, counters>>

\* line 1669: reversed(self.rename_history) walks the list itself; it starts
\* at the last pair of the list as it was, steps down by one for each item,
\* and ends when its position is no position of the list as it is now
it_index == total_files - processed_count

has_next(history, position) == 1 <= position /\ position <= Len(history)

\* a variant that walks the history from its first pair
UndoMoveForward ==
    /\ pc = "undo" /\ has_next(rename_history, it_index)
    /\ LET pair == rename_history[processed_count + 1]
       IN  /\ ~move_raises(fs, pair[1], pair[2])
           /\ fs' = move(fs, pair[1], pair[2])
    /\ ItemProcessed("undone", processed_count + 1, "")
    /\ UNCHANGED <<stack, text_new, history_file, rename_history, undo_enabled, pc,
                   outcome, origs, news, validated, illegal_chars, conflicts,
                   temp_history, fs_before, faults, refused, moved, crashed_at,
                   counters>>

\* lines 1671-1672: one reverse move, last pair first
UndoMove ==
    /\ pc = "undo" /\ has_next(rename_history, it_index)
    /\ LET pair == rename_history[it_index]
       IN  /\ ~move_raises(fs, pair[1], pair[2])
           /\ fs' = move(fs, pair[1], pair[2])
    /\ ItemProcessed("undone", it_index, "")
    /\ UNCHANGED <<stack, text_new, history_file, rename_history, undo_enabled, pc, outcome,
                   origs, news, validated, illegal_chars, conflicts,
                   temp_history, fs_before, faults, refused, moved, crashed_at,
                   counters>>

\* lines 1673-1674: shutil.move raises
UndoMoveFail ==
    /\ pc = "undo" /\ has_next(rename_history, it_index)
    /\ ItemProcessed("error", it_index, "move")
    /\ faults' = faults \cup {"move"}
    /\ UNCHANGED <<stack, text_new, fs, history_file, rename_history, undo_enabled, pc, outcome,
                   origs, news, validated, illegal_chars, conflicts,
                   temp_history, fs_before, refused, moved, crashed_at,
                   counters>>

\* a variant that leaves the history file where it is
UndoFinishKeepsFile ==
    /\ pc = "undo" /\ ~has_next(rename_history, it_index)
    /\ log_text' = Append(log_text, Line("undo_done", 0, ""))
    /\ rename_history' = <<>>
    /\ undo_enabled' = FALSE
    /\ refused' = FALSE
    /\ Returned("undo_done")
    /\ UNCHANGED <<stack, progress_label, text_new, fs, history_file, fs_before, faults, moved,
                   crashed_at, counters>>

\* lines 1682-1688: after the loop
UndoFinish ==
    /\ pc = "undo" /\ ~has_next(rename_history, it_index)
    /\ log_text' = Append(log_text, Line("undo_done", 0, ""))
    /\ rename_history' = <<>>
    /\ undo_enabled' = FALSE
    /\ refused' = FALSE
    /\ history_file' = NoFile
    /\ Returned("undo_done")
    /\ UNCHANGED <<stack, progress_label, text_new, fs, fs_before, faults, moved, crashed_at, counters>>

(***************************************************************************)
(* The environment: other programs, and the end of the process.            *)
(***************************************************************************)
FreshId ==
    Cardinality({n \in DOMAIN InitialFs : InitialFs[n] # Dir}) + externals + 1

ExternalDelete(name) ==
    /\ externals < MaxExt
    /\ isfile(fs, name)
    /\ fs' = [n \in DOMAIN fs \ {name} |-> fs[n]]
    /\ externals' = externals + 1
    /\ faults' = faults \cup {"external"}
    /\ UNCHANGED <<stack, progress_label, text_new, history_file, rename_history, undo_enabled, log_text, pc,
                   outcome, locals, fs_before, refused, moved, crashed_at,
                   renames, crashes>>

ExternalCreate(name) ==
    /\ externals < MaxExt
    /\ name \notin DOMAIN fs
    /\ fs' = fs @@ (name :> FreshId)
    /\ externals' = externals + 1
    /\ faults' = faults \cup {"external"}
    /\ UNCHANGED <<stack, progress_label, text_new, history_file, rename_history, undo_enabled, log_text, pc,
                   outcome, locals, fs_before, refused, moved, crashed_at,
                   renames, crashes>>

\* the process ends at any point; only the folder and the history file stay
Crash ==
    /\ pc # "crashed" /\ crashes < MaxCrash
    /\ crashes' = crashes + 1
    /\ crashed_at' = pc
    /\ rename_history' = <<>>
    /\ undo_enabled' = FALSE
    /\ log_text' = <<>>
    /\ text_new' = <<>>
    /\ pc' = "crashed"
    /\ outcome' = "crashed"
    /\ origs' = <<>> /\ news' = <<>> /\ validated' = <<>>
    /\ illegal_chars' = {} /\ conflicts' = <<>>
    /\ temp_history' = <<>> /\ processed_count' = 0 /\ total_files' = 0
    /\ faults' = faults \cup {"crash"}
                     \cup (IF pc = "exec" /\ processed_count < total_files
                           THEN {"partial"} ELSE {})
    /\ refused' = FALSE
    /\ progress_label' = [shown |-> FALSE, text |-> 0]
    /\ stack' = <<>>
    /\ UNCHANGED <<fs, history_file, fs_before, moved, renames, externals>>

\* a variant that leaves a file it cannot parse where it is
LoadHistoryKeepsCorruptFile ==
    /\ pc = "crashed"
    /\ pc' = "idle"
    /\ IF history_file.exists /\ history_file.valid
       THEN /\ rename_history' = history_file.content
            /\ undo_enabled' = (history_file.content # <<>>)
            /\ outcome' = "history_loaded"
       ELSE /\ rename_history' = <<>>
            /\ undo_enabled' = FALSE
            /\ outcome' = IF history_file.exists THEN "history_discarded"
                                                ELSE "started"
    /\ crashed_at' = "idle"
    /\ UNCHANGED <<stack, progress_label, text_new, fs, history_file, log_text, locals, fs_before,
                   faults, refused, moved, counters>>

\* _load_history_on_startup, lines 1457-1467, at the next start: the file
\* is read when it exists; a file that cannot be read or parsed is removed
LoadHistoryOnStartup ==
    /\ pc = "crashed"
    /\ pc' = "idle"
    /\ IF history_file.exists /\ history_file.valid
       THEN /\ rename_history' = history_file.content
            /\ undo_enabled' = (history_file.content # <<>>)
            /\ outcome' = "history_loaded"
            /\ UNCHANGED history_file
       ELSE /\ rename_history' = <<>>
            /\ undo_enabled' = FALSE
            /\ outcome' = IF history_file.exists THEN "history_discarded"
                                                ELSE "started"
            /\ history_file' = NoFile
    /\ crashed_at' = "idle"
    /\ UNCHANGED <<stack, progress_label, text_new, fs, log_text, locals, fs_before, faults, refused,
                   moved, counters>>

Next ==
    \/ \E request \in Requests, settings \in SettingsChoices :
          RenameClick(WorkDir, request.orig, request.new, settings)
    \/ \E folder_text \in FolderTexts \ {WorkDir}, settings \in SettingsChoices :
          RenameClick(folder_text, <<<<"a">>>>, <<<<"x">>>>, settings)
    \/ CharsYes
    \/ CharsNo
    \/ ConflictRename
    \/ ConflictList
    \/ ConflictCancel
    \/ ExecNotFound
    \/ ExecMove
    \/ ExecMoveFail
    \/ ExecWrite
    \/ \E left \in {history_file, CorruptFile} : ExecWriteFail(left)
    \/ ExecFinish
    \/ UndoClick
    \/ UndoNo
    \/ UndoYes
    \/ UndoMove
    \/ UndoMoveFail
    \/ UndoFinish
    \/ \E name \in DOMAIN fs : ExternalDelete(name)
    \/ \E name \in ExternalNames : ExternalCreate(name)
    \/ Crash
    \/ LoadHistoryOnStartup

Spec == Init /\ [][Next]_vars

(***************************************************************************)
(* A second specification, for the conflict handling alone: Rename is      *)
(* clicked once, in any of a set of folders and with any list of at most   *)
(* MaxNames new names out of a set that holds duplicates, names that exist *)
(* and names that have the form of a suffixed name; the run ends when      *)
(* _handle_name_conflicts has returned.                                    *)
(***************************************************************************)
ConflictNames ==
    {<<"x">>, <<"x", ".", "t">>, <<"x", "_", "(", "1", ")">>, <<":">>}

ConflictEntries ==
    {<<"x">>, <<"x", ".", "t">>, <<"x", "_", "(", "1", ")">>,
     <<"x", "_", "(", "2", ")">>}

InitConflicts ==
    /\ \E present \in SUBSET ConflictEntries :
           fs = [n \in present \cup {<<"a">>} |-> 1]
    /\ history_file = NoFile
    /\ rename_history = <<>>
    /\ undo_enabled = FALSE
    /\ moved = <<>>
    /\ log_text = <<>>
    /\ text_new = <<>>
    /\ pc = "idle"
    /\ outcome = "started"
    /\ origs = <<>> /\ news = <<>> /\ validated = <<>>
    /\ illegal_chars = {} /\ conflicts = <<>>
    /\ temp_history = <<>> /\ processed_count = 0 /\ total_files = 0
    /\ progress_label = [shown |-> FALSE, text |-> 0]
    /\ stack = <<>>
    /\ fs_before = fs
    /\ faults = {} /\ refused = FALSE
    /\ crashed_at = "idle"
    /\ renames = 0 /\ externals = 0 /\ crashes = 0

NextConflicts ==
    \/ /\ renames = 0
       /\ \E m \in 0..MaxNames, settings \in SettingsChoices :
             \E typed_new \in [1..m -> ConflictNames] :
                 RenameClick(WorkDir, [k \in 1..m |-> <<"a">>], typed_new, settings)
    \/ CharsYes
    \/ CharsNo
    \/ ConflictRename
    \/ ConflictList
    \/ ConflictCancel

SpecConflicts == InitConflicts /\ [][NextConflicts]_vars

(***************************************************************************)
(* A third specification, for the clicks that arrive while a loop runs.    *)
(* Both loops end every item with QApplication.processEvents() (lines 1619 *)
(* and 1680), which handles the events that wait in the queue; the Rename  *)
(* and Undo buttons stay enabled while a loop runs, so a click on one of   *)
(* them waits there and its handler runs inside that call, to its end,     *)
(* before the loop goes on.                                                *)
(***************************************************************************)
\* the position and the locals of the handler that called processEvents
Frame ==
    [pc |-> pc, origs |-> origs, news |-> news, validated |-> validated,
     illegal_chars |-> illegal_chars, conflicts |-> conflicts,
     temp_history |-> temp_history, processed_count |-> processed_count,
     total_files |-> total_files]

\* lines 1619 and 1680: processEvents finds a click in the queue; the loop
\* waits and the event loop is ready to run the handler of the click
DispatchEvents ==
    /\ pc \in {"exec", "undo"} /\ processed_count >= 1
    /\ Len(stack) < MaxDepth
    /\ stack' = Append(stack, Frame)
    /\ Returned("events")
    /\ UNCHANGED <<progress_label, text_new, fs, history_file, rename_history,
                   undo_enabled, log_text, fs_before, faults, refused, moved,
                   crashed_at, counters>>

\* lines 1619 and 1680: processEvents returns and the loop goes on
ReturnFromEvents ==
    /\ pc = "idle" /\ stack # <<>>
    /\ LET frame == stack[Len(stack)]
       IN  /\ pc' = frame.pc
           /\ origs' = frame.origs /\ news' = frame.news
           /\ validated' = frame.validated
           /\ illegal_chars' = frame.illegal_chars
           /\ conflicts' = frame.conflicts
           /\ temp_history' = frame.temp_history
           /\ processed_count' = frame.processed_count
           /\ total_files' = frame.total_files
    /\ stack' = SubSeq(stack, 1, Len(stack) - 1)
    /\ outcome' = "running"
    /\ UNCHANGED <<progress_label, text_new, fs, history_file, rename_history,
                   undo_enabled, log_text, fs_before, faults, refused, moved,
                   crashed_at, counters>>

NextReentrant ==
    \/ \E request \in Requests, settings \in SettingsChoices :
          RenameClick(WorkDir, request.orig, request.new, settings)
    \/ CharsYes
    \/ CharsNo
    \/ ConflictRename
    \/ ConflictList
    \/ ConflictCancel
    \/ ExecNotFound
    \/ ExecMove
    \/ ExecMoveFail
    \/ ExecWrite
    \/ ExecFinish
    \/ UndoClick
    \/ UndoNo
    \/ UndoYes
    \/ UndoMove
    \/ UndoMoveFail
    \/ UndoFinish
    \/ DispatchEvents
    \/ ReturnFromEvents

SpecReentrant == Init /\ [][NextReentrant]_vars

(***************************************************************************)
(* A fourth specification, for the progress label: the loops alone, over   *)
(* up to MaxTotal items. It starts where _execute_rename is about to       *)
(* process the first of total pairs (the originals at the even lines are   *)
(* no files), or where undo is about to take back the first of total moves *)
(* of a batch that a session before has made.                              *)
(***************************************************************************)
OriginalName(k) == IF k % 2 = 0 THEN <<"d">> ELSE <<"f">> \o str(k)

NewName(k) == <<"n">> \o str(k)

InitProgress ==
    /\ \E total \in 1..MaxTotal :
          \/ /\ pc = "exec"
             /\ fs = [n \in {OriginalName(k) : k \in 1..total} |->
                         IF n = <<"d">> THEN Dir
                         ELSE CHOOSE k \in 1..total : OriginalName(k) = n]
             /\ origs = [k \in 1..total |-> OriginalName(k)]
             /\ news = [k \in 1..total |-> NewName(k)]
             /\ validated = news
             /\ text_new = news
             /\ rename_history = <<>>
             /\ history_file = NoFile
             /\ undo_enabled = FALSE
             /\ log_text = <<>>
             /\ total_files = total
          \/ /\ pc = "undo"
             /\ fs = [n \in {NewName(k) : k \in 1..total} |->
                         CHOOSE k \in 1..total : NewName(k) = n]
             /\ origs = <<>> /\ news = <<>> /\ validated = <<>>
             /\ text_new = <<>>
             /\ rename_history = [k \in 1..total |->
                                     <<NewName(k), <<"f">> \o str(k)>>]
             /\ history_file = json_dump(rename_history)
             /\ undo_enabled = TRUE
             /\ log_text = <<Line("undoing", 0, "")>>
             /\ total_files = total
    /\ outcome = "running"
    /\ illegal_chars = {} /\ conflicts = <<>>
    /\ temp_history = <<>> /\ processed_count = 0
    /\ progress_label = [shown |-> TRUE, text |-> 0]
    /\ stack = <<>>
    /\ moved = <<>>
    /\ fs_before = fs
    /\ faults = {} /\ refused = FALSE
    /\ crashed_at = "idle"
    /\ renames = 0 /\ externals = 0 /\ crashes = 0

NextProgress ==
    \/ ExecNotFound
    \/ ExecMove
    \/ ExecMoveFail
    \/ ExecWrite
    \/ ExecFinish
    \/ UndoMove
    \/ UndoMoveFail
    \/ UndoFinish

SpecProgress == InitProgress /\ [][NextProgress]_vars

(***************************************************************************)
(* Properties of the conflict handling, checked under SpecConflicts.       *)
(***************************************************************************)
PairwiseDistinct(names) ==
    \A j, k \in 1..Len(names) : j # k => names[j] # names[k]

NoneExists(names, f) == \A k \in 1..Len(names) : ~exists(f, names[k])

\* _handle_name_conflicts has returned a list and _execute_rename has not yet
\* touched the folder
PlanReturned == pc = "exec" /\ outcome = "running" /\ processed_count = 0

\* C7: after "Rename" in the conflict dialog, detection run again on the
\* returned list against the same folder finds no conflict: the returned
\* names are pairwise distinct and none of them exists in the folder.
C7_ResolvedPlanHasNoConflict ==
    PlanReturned =>
        /\ conflicting_indices(news, fs) = {}
        /\ PairwiseDistinct(news)
        /\ NoneExists(news, fs)

C7_Witness ==
    /\ PlanReturned
    /\ news # validated
    /\ Len(validated) = MaxNames
    /\ ~PairwiseDistinct(validated)
    /\ \E k \in 1..Len(validated) : exists(fs, validated[k])
    /\ \E k \in 1..Len(news) : news[k] = <<"x", "_", "(", "3", ")">>

\* the names base_(j)ext a resolution of name can produce
SuffixForms(name, names, f) ==
    {suffixed_name(splitext(name)[1], j, splitext(name)[2]) :
        j \in 1..(Len(names) + Cardinality(DOMAIN f))}

\* C8: when no new name exists in the folder, k identical new names receive k
\* pairwise distinct names of the form base_(j)ext, none of which exists in
\* the folder; when no name of that form is in the folder or in the list,
\* the occurrences receive base_(1)ext, ..., base_(k)ext in ascending line
\* order.
C8_DuplicatesGetDistinctSuffixes ==
    (PlanReturned /\ NoneExists(validated, fs)) =>
        \A name \in Range(validated) :
            LET group == {k \in 1..Len(validated) : validated[k] = name}
                forms == SuffixForms(name, validated, fs)
                parts == splitext(name)
            IN  Cardinality(group) > 1 =>
                    /\ \A k \in group : news[k] \in forms /\ ~exists(fs, news[k])
                    /\ \A j, k \in group : j # k => news[j] # news[k]
                    /\ (forms \cap (DOMAIN fs \cup Range(validated)) = {}) =>
                           \A k \in group :
                               news[k] = suffixed_name(parts[1],
                                   Cardinality({j \in group : j <= k}), parts[2])

C8_Witness ==
    /\ PlanReturned
    /\ NoneExists(validated, fs)
    /\ validated = <<<<"x", ".", "t">>, <<"x", ".", "t">>, <<"x", ".", "t">>>>
    /\ news = <<<<"x", "_", "(", "1", ")", ".", "t">>,
                <<"x", "_", "(", "2", ")", ".", "t">>,
                <<"x", "_", "(", "3", ")", ".", "t">>>>

\* the conflict set as the specification words it
DeclaredConflicts(names, f) ==
    {k \in 1..Len(names) :
        \/ exists(f, names[k])
        \/ \E j \in 1..Len(names) : j # k /\ names[j] = names[k]}

\* C9: detection yields exactly the indices whose new name exists in the
\* folder or equals the new name of another line; the dialog opens exactly
\* when that set is not empty, and otherwise the list goes on unchanged.
C9_DetectionIsExact ==
    [][(/\ pc \in {"idle", "invalid_chars"}
        /\ pc' \in {"conflict", "exec"} \/ outcome' = "done")
       => /\ (pc' = "conflict") <=> (DeclaredConflicts(validated', fs) # {})
          /\ (pc' # "conflict") <=>
                 (NoneExists(validated', fs) /\ PairwiseDistinct(validated'))
          /\ pc' = "conflict" =>
                 Range(conflicts') = DeclaredConflicts(validated', fs)
          /\ news' = validated']_vars

C9_Witness ==
    /\ pc = "conflict"
    /\ Len(news) = MaxNames
    /\ \E k \in Range(conflicts) :
           exists(fs, news[k]) /\ name_count(news, news[k]) = 1
    /\ \E k \in Range(conflicts) : ~exists(fs, news[k])

(***************************************************************************)
(* Properties of rename and undo, checked under Spec.                      *)
(***************************************************************************)
\* the history file holds exactly the pairs of history
FileHolds(history) ==
    IF history = <<>>
    THEN ~history_file.exists \/ (history_file.valid /\ history_file.content = <<>>)
    ELSE /\ history_file.exists /\ history_file.valid
         /\ history_file.content = history

\* the number of lines of the log that report an item with one of the kinds
CountKinds(kinds) ==
    Cardinality({k \in 1..Len(log_text) : log_text[k].kind \in kinds})

ExecuteReturned == pc = "idle" /\ outcome = "done"

\* C1: when a batch ran without a failed move and without another program
\* touching the folder, a confirmed undo puts every renamed file back under
\* its original name, and the folder is as it was before the rename.
C1_UndoRoundTrip ==
    (pc = "idle" /\ outcome = "undo_done"
        /\ faults \cap {"external", "move", "crash"} = {})
    => fs = fs_before

C1_Witness ==
    /\ pc = "idle" /\ outcome = "undo_done"
    /\ faults \cap {"external", "move", "crash"} = {}
    /\ renames = 1
    /\ Len(moved) = 2
    /\ fs = fs_before

\* C2: an undo that finds a recorded current path missing is refused before
\* the confirmation is asked, and leaves the folder, the history in memory
\* and the history file as they were; the confirmation is asked only when
\* every recorded current path exists.
C2_UndoRefusedWithoutChange ==
    [][(pc = "idle"
        /\ \/ outcome # "undo_failed_msg" /\ outcome' = "undo_failed_msg"
           \/ pc' = "undo_confirm")
       => IF \E k \in 1..Len(rename_history) : ~exists(fs, rename_history[k][1])
          THEN /\ pc' = "idle" /\ outcome' = "undo_failed_msg"
               /\ UNCHANGED <<fs, rename_history, history_file, undo_enabled>>
          ELSE pc' = "undo_confirm"]_vars

\* the confirmation of an undo that was refused earlier
C2_Witness ==
    /\ pc = "undo_confirm"
    /\ refused
    /\ rename_history # <<>>
    /\ FileHolds(rename_history)

AtItemBoundary == pc = "exec" \/ (pc = "crashed" /\ crashed_at = "exec")

C4_Original ==
    ExecuteReturned =>
        /\ Len(rename_history) = CountKinds({"ok"})
        /\ FileHolds(rename_history)

\* C5: when no move failed, every pair whose original was a file when the
\* pair was processed has been moved, and the history has one pair for each.
C5_MovesEveryExistingOriginal ==
    (ExecuteReturned /\ "move" \notin faults) =>
        /\ rename_history = moved
        /\ Len(rename_history) = CountKinds({"ok", "error"})

C5_Witness ==
    /\ ExecuteReturned /\ "move" \notin faults
    /\ Len(rename_history) = 2
    /\ CountKinds({"error"}) = 1

\* C6: the loop handles the pairs one by one in the order of the lists,
\* whatever the outcome of a pair, and returns only after the last pair.
C6_ContinueOnError ==
    /\ [](pc \in {"exec", "exec_write"} =>
            /\ Len(log_text) = processed_count
            /\ \A k \in 1..Len(log_text) :
                   /\ log_text[k].line = k
                   /\ log_text[k].kind \in {"ok", "not_found", "error"})
    /\ [][(pc \in {"exec", "exec_write"} /\ pc' = "idle")
            => processed_count = Len(origs)]_vars

C6_Witness ==
    /\ ExecuteReturned
    /\ Len(log_text) = 3
    /\ log_text[1].kind = "error" /\ log_text[1].cause = "move"
    /\ log_text[2].kind = "ok"

ValidationErrors ==
    {"select_valid_folder", "forbidden_dir_msg", "map_error_msg", "chars_declined"}

\* C10: a rename request that fails validation changes neither the folder
\* nor the history file, and no loop ever runs on lists of different lengths.
C10_FailedValidationMutatesNothing ==
    /\ [][(\/ renames' # renames /\ outcome' \in ValidationErrors
           \/ pc = "idle" /\ pc' = "invalid_chars"
           \/ pc = "invalid_chars" /\ outcome' = "chars_declined")
          => UNCHANGED <<fs, history_file>>]_vars
    /\ [](pc \in {"exec", "exec_write"} => Len(origs) = Len(news))

C10_Witness ==
    /\ pc = "idle" /\ outcome = "map_error_msg"
    /\ history_file.exists
    /\ rename_history = <<>>

(***************************************************************************)
(* Properties of the validation and of the dialogs, checked under Spec.    *)
(***************************************************************************)
\* C11: a rename request whose folder, after normalization of the path, is
\* the configuration directory ends with the forbidden-directory error
\* before conflict detection and execution: no dialog opens, no loop starts,
\* no file is moved and the history file stays as it is.
C11_ForbiddenDestination ==
    [][renames' # renames =>
          \A folder_text \in FolderTexts \ {WorkDir}, settings \in SettingsChoices :
              (/\ normpath(strip(folder_text)) = normpath(ConfigDir)
               /\ RenameClick(folder_text, <<<<"a">>>>, <<<<"x">>>>, settings))
              => /\ pc' = "idle" /\ outcome' = "forbidden_dir_msg"
                 /\ UNCHANGED <<fs, history_file, log_text>>]_vars

C11_Witness ==
    /\ pc = "idle" /\ outcome = "forbidden_dir_msg"
    /\ isfile(fs, <<"a">>) /\ ~exists(fs, <<"x">>)
    /\ renames = 1

\* res is name without its characters of policy, and only without those
RECURSIVE IsNameWithout(_, _, _)
IsNameWithout(res, name, policy) ==
    IF name = <<>> THEN res = <<>>
    ELSE IF Head(name) \in policy THEN IsNameWithout(res, Tail(name), policy)
    ELSE /\ res # <<>> /\ Head(res) = Head(name)
         /\ IsNameWithout(Tail(res), Tail(name), policy)

HasPolicyChar(name, policy) == Range(name) \cap policy # {}

\* C12: no move goes toward a new name that holds a character of the active
\* policy, and conflict detection and execution never work on such a name;
\* when the operator declines the removal the request ends with the folder,
\* the history file and the box of new names unchanged; when the operator
\* accepts, every new name loses exactly its characters of the policy before
\* conflict detection.
C12_CharacterPolicy ==
    /\ [](pc \in {"conflict", "exec", "exec_write"} =>
            /\ \A k \in 1..Len(news) : ~HasPolicyChar(news[k], illegal_chars)
            /\ \A k \in 1..Len(moved) : ~HasPolicyChar(moved[k][1], illegal_chars))
    /\ [][(pc = "invalid_chars" /\ pc' = "idle") =>
            /\ outcome' = "chars_declined"
            /\ UNCHANGED <<fs, history_file, text_new>>]_vars
    /\ [][(pc = "invalid_chars" /\ pc' \in {"conflict", "exec"}) =>
            /\ Len(validated') = Len(news)
            /\ \A k \in 1..Len(news) :
                   IsNameWithout(validated'[k], news[k], illegal_chars)
            /\ text_new' = validated'
            /\ origs' = origs]_vars

C12_Witness ==
    /\ pc = "idle" /\ outcome = "done"
    /\ text_new = <<<<"y">>>>
    /\ moved = <<<<<<"y">>, <<"b">>>>>>
    /\ isfile(fs, <<"y">>)

C12_WitnessDeclined ==
    /\ pc = "idle" /\ outcome = "chars_declined"
    /\ \E k \in 1..Len(text_new) : HasPolicyChar(text_new[k], ILLEGAL_CHARS_WINDOWS)

\* C13 as stated: after "Cancel" or "List Errors" in the conflict dialog no
\* file has been moved, the box of new names is as the request left it, and
\* the history of the previous batch is unchanged in memory and on disk: the
\* batch the history file records is still in memory and can be undone.
C13_Original ==
    (pc = "idle" /\ outcome \in {"conflict_listed", "conflict_cancelled"}) =>
        /\ "external" \notin faults => fs = fs_before
        /\ (history_file.exists /\ history_file.valid
                /\ history_file.content # <<>>) =>
               (rename_history = history_file.content /\ undo_enabled)

\* C14: "List Errors" reports the line number of every pair of the conflict
\* set and of no other pair, in ascending order, one line number per pair,
\* and touches neither the folder nor the history file.  (Position k of the
\* lists is lineIndex k - 1 and line number k.)
C14_ListReportsConflictLines ==
    [][(pc = "conflict" /\ outcome' = "conflict_listed") =>
          /\ {log_text'[k].line : k \in 1..Len(log_text')} = DeclaredConflicts(news, fs)
          /\ \A j, k \in 1..Len(log_text') :
                 j < k => log_text'[j].line < log_text'[k].line
          /\ \A k \in 1..Len(log_text') : log_text'[k].kind = "listed"
          /\ UNCHANGED <<fs, history_file, text_new>>]_vars

C14_Witness ==
    /\ pc = "idle" /\ outcome = "conflict_listed"
    /\ Len(text_new) = MaxNames
    /\ Len(log_text) = 2
    /\ log_text[1].line = 1 /\ log_text[2].line = MaxNames
    /\ text_new[1] = text_new[MaxNames] /\ ~exists(fs, text_new[1])

\* C15 as stated: the pairs a request works on are the lines of the two
\* boxes taken line by line: pair i is made of line i of the original names
\* and line i of the new names, also when the boxes hold blank lines.
C15_Original ==
    [][renames' # renames =>
          \A request \in Requests, settings \in SettingsChoices :
              (/\ RenameClick(WorkDir, request.orig, request.new, settings)
               /\ pc' \in {"invalid_chars", "conflict", "exec"})
              => \A i \in 1..Len(origs') :
                     /\ i <= Len(request.orig) /\ i <= Len(request.new)
                     /\ origs'[i] = strip(request.orig[i])
                     /\ news'[i] = strip(request.new[i])]_vars

(***************************************************************************)
(* Properties of undo and of the startup load, checked under Spec.         *)
(***************************************************************************)
\* the pair the running undo loop handles next
UndoPair == rename_history[Len(rename_history) - processed_count]

\* C16: a confirmed undo handles every pair of the history exactly once,
\* the last recorded pair first: its k-th item is pair Len - k + 1, a
\* successful item takes the file away from the pair's current path, the
\* history is not altered while the loop runs, and the loop ends only when
\* every pair has been handled.
C16_UndoInReverseOrder ==
    /\ [](pc = "undo" =>
            /\ Len(log_text) = processed_count + 1
            /\ processed_count <= Len(rename_history)
            /\ \A k \in 1..processed_count :
                   /\ log_text[k + 1].line = Len(rename_history) - k + 1
                   /\ log_text[k + 1].kind \in {"undone", "error"})
    /\ [][pc = "undo" =>
            /\ pc' = "undo" => rename_history' = rename_history
            /\ pc' = "idle" => processed_count = Len(rename_history)
            /\ processed_count' = processed_count + 1 =>
                   \/ fs' = fs /\ log_text'[Len(log_text')].kind = "error"
                   \/ /\ log_text'[Len(log_text')].kind = "undone"
                      /\ isfile(fs', UndoPair[2])
                      /\ UndoPair[1] # UndoPair[2] => ~exists(fs', UndoPair[1])
                      /\ \E n \in DOMAIN fs' : fs'[n] = fs[UndoPair[1]]]_vars

C16_Witness ==
    /\ pc = "idle" /\ outcome = "undo_done"
    /\ Len(log_text) = 4
    /\ log_text[2] = Line("undone", 2, "")
    /\ log_text[3] = Line("undone", 1, "")

\* nothing is left to undo, in memory or on disk
NothingToUndo ==
    ~undo_enabled /\ rename_history = <<>> /\ ~history_file.exists

C18_UndoDeclinedMutatesNothing ==
    [][(pc = "undo_confirm" /\ pc' = "idle") =>
          /\ outcome' = "undo_cancelled"
          /\ undo_enabled' /\ rename_history' # <<>>
          /\ UNCHANGED <<fs, rename_history, history_file, undo_enabled,
                         log_text, text_new>>]_vars

C18_Witness ==
    /\ pc = "idle" /\ outcome = "undo_cancelled"
    /\ Len(rename_history) = 2 /\ undo_enabled
    /\ FileHolds(rename_history)
    /\ log_text # <<>>

\* C19 as stated: no reverse move of a confirmed undo replaces a file that
\* occupies the original path at the time of the move: the file found
\* there before the move is still there after it.
C19_Original ==
    [][(pc = "undo" /\ processed_count' = processed_count + 1
            /\ UndoPair[1] # UndoPair[2] /\ isfile(fs, UndoPair[2])) =>
          (isfile(fs', UndoPair[2]) /\ fs'[UndoPair[2]] = fs[UndoPair[2]])]_vars

C20_WitnessLoaded ==
    /\ pc = "idle" /\ outcome = "history_loaded"
    /\ crashes = 1 /\ renames = 1
    /\ Len(moved) = 2 /\ rename_history = <<moved[1]>>

(***************************************************************************)
(* The clicks that arrive while a loop runs, checked under SpecReentrant.  *)
(***************************************************************************)
\* the step is the start of the handler of a click on Rename or on Undo
RequestStarted ==
    /\ pc = "idle"
    /\ \/ renames' = renames + 1
       \/ /\ undo_enabled /\ UNCHANGED renames
          /\ \/ pc' = "undo_confirm"
             \/ pc' = "idle" /\ outcome' \in {"nothing_to_undo", "undo_failed_msg"}

\* C21: once an execute or undo loop has begun it runs to its end before any
\* other request is handled: no handler of a click on Rename or Undo starts
\* while a loop waits between two of its items.
C21_Original == [][RequestStarted => stack = <<>>]_vars

(***************************************************************************)
(* The history of a batch, checked under Spec.                             *)
(***************************************************************************)
\* C22: when _execute_rename returns, the history in memory is the sequence
\* of the pairs whose move succeeded in this batch, in the order of the
\* moves, and holds no pair of a batch before, undone or not.
C22_OneLevelHistory ==
    ExecuteReturned => rename_history = moved

\* a batch before renamed a to x; this batch renamed b to a
C22_Witness ==
    /\ ExecuteReturned
    /\ ~exists(fs_before, <<"a">>) /\ exists(fs_before, <<"x">>)
    /\ rename_history = <<<<<<"a">>, <<"b">>>>>>

\* C23: _execute_rename begins by resetting the history store: for every
\* validated plan, the empty plan included, the history file of the batch
\* before is gone and the history in memory is empty before a pair is
\* processed, so that batch can no longer be undone.
C23_Original ==
    /\ (pc = "exec" /\ processed_count = 0) =>
           ~history_file.exists /\ rename_history = <<>>
    /\ (ExecuteReturned /\ log_text = <<Line("done", 0, "")>>) =>
           ~history_file.exists /\ rename_history = <<>>

\* the step is a write of the history file that raised
WriteFailed ==
    /\ pc = "exec_write" /\ Len(log_text') = Len(log_text) + 1
    /\ log_text'[Len(log_text')].cause = "write"

\* the kinds of line that report the outcome of a move
MoveOutcomeKinds == {"ok", "not_found", "error"}

\* C24: a write of the history file that fails after a move that succeeded
\* is reported apart from the outcomes of a move, the move is not taken back
\* and the loop goes on to the next pair.
C24_Original ==
    [][WriteFailed =>
          /\ log_text'[Len(log_text')].kind \notin MoveOutcomeKinds
          /\ fs' = fs /\ temp_history' = temp_history
          /\ pc' = "exec" /\ processed_count' = processed_count + 1]_vars

\* C25: when the program ends between two pairs of a batch, after the
\* history of the moves so far has been written, the history loaded at the
\* next start is the pairs moved so far; and when undo is then confirmed and
\* no other program touches the folder and no reverse move fails, the
\* folder is again as it was before the batch.
C25_PartialBatchUndoable ==
    /\ (pc = "idle" /\ outcome = "history_loaded" /\ "partial" \in faults
          /\ "write" \notin faults)
         => rename_history = moved /\ undo_enabled
    /\ (pc = "idle" /\ outcome = "undo_done" /\ "partial" \in faults
          /\ faults \cap {"write", "external"} = {}
          /\ \A k \in 1..Len(log_text) : log_text[k].kind # "error")
         => /\ fs = fs_before
            /\ CountKinds({"undone"}) = Len(moved)

\* the program ended after the first of two pairs, and undo of the loaded
\* history has put the one moved file back
C25_Witness ==
    /\ pc = "idle" /\ outcome = "undo_done"
    /\ "partial" \in faults /\ "external" \notin faults
    /\ Len(moved) = 1 /\ CountKinds({"undone"}) = 1
    /\ fs = fs_before

(***************************************************************************)
(* The progress label, checked under SpecProgress.                         *)
(***************************************************************************)
\* C26: after every item of either loop, whatever its outcome, the number
\* shown is processed_count / total_files * 100 rounded to a nearest whole
\* number: it differs from the quotient by a half at most.
C26_Original ==
    (pc \in {"exec", "undo"} /\ processed_count >= 1) =>
        LET shown == progress_label.text * total_files
            exact == 100 * processed_count
        IN  /\ 2 * (exact - shown) <= total_files
            /\ 2 * (shown - exact) <= total_files

(***************************************************************************)
(* The search for a free name, checked under SpecConflicts.                *)
(***************************************************************************)
\* the numbers j for which base_(j)ext of name is taken by an entry of the
\* folder or by a name of one of the lists
TakenNumbers(name, lists, f) ==
    {j \in 1..(Len(validated) + Cardinality(DOMAIN f) + 1) :
        LET form == suffixed_name(splitext(name)[1], j, splitext(name)[2])
        IN  exists(f, form) \/ \E l \in lists : form \in Range(l)}

\* C28: the search for a free name ends for every list and every folder: the
\* number it settles on for a conflicting name is at most one more than the
\* number of names of the form base_(j)ext that are taken by the folder or
\* by the lists, of which there are finitely many.
C28_SearchIsBounded ==
    PlanReturned =>
        \A i \in DeclaredConflicts(validated, fs) :
            \E k \in 1..(Cardinality(TakenNumbers(validated[i], {validated, news}, fs)) + 1) :
                news[i] = suffixed_name(splitext(validated[i])[1], k,
                                        splitext(validated[i])[2])

\* the folder holds x, x_(1) and x_(2), and the search for x went up to 3
C28_Witness ==
    /\ PlanReturned
    /\ {<<"x">>, <<"x", "_", "(", "1", ")">>, <<"x", "_", "(", "2", ")">>}
           \subseteq DOMAIN fs
    /\ validated = <<<<"x">>>>
    /\ news = <<<<"x", "_", "(", "3", ")">>>>

\* the working list when the conflicting index i is visited: the conflicting
\* lines before i hold their new names, every other line its name at
\* detection time
WorkingList(i) ==
    [j \in 1..Len(validated) |->
        IF j < i /\ j \in DeclaredConflicts(validated, fs) THEN news[j]
                                                           ELSE validated[j]]

\* C29: the conflicting indices are visited in ascending order; each is given
\* base_(k)ext, base and ext taken from its name at detection time, for the
\* smallest k >= 1 whose candidate neither exists in the folder nor equals a
\* name of the working list at that moment, in which the names given to the
\* indices before it already stand; the other lines keep their names.
C29_SmallestFreeSuffix ==
    PlanReturned =>
        \A i \in 1..Len(validated) :
            IF i \notin DeclaredConflicts(validated, fs)
            THEN news[i] = validated[i]
            ELSE LET base == splitext(validated[i])[1]
                     ext == splitext(validated[i])[2]
                     free(k) == /\ ~exists(fs, suffixed_name(base, k, ext))
                                /\ suffixed_name(base, k, ext)
                                      \notin Range(WorkingList(i))
                 IN  \E k \in 1..(Len(validated) + Cardinality(DOMAIN fs) + 1) :
                        /\ news[i] = suffixed_name(base, k, ext)
                        /\ free(k)
                        /\ \A j \in 1..(k - 1) : ~free(j)

\* x is given twice and x_(1) once, nothing of it is in the folder: the
\* first x finds x_(1) in the list and takes x_(2), the second x finds
\* x_(2) there as well and takes x_(3), and x_(1), no conflict, stays
C29_Witness ==
    /\ PlanReturned
    /\ validated = <<<<"x">>, <<"x">>, <<"x", "_", "(", "1", ")">>>>
    /\ ~exists(fs, <<"x">>) /\ ~exists(fs, <<"x", "_", "(", "1", ")">>)
    /\ ~exists(fs, <<"x", "_", "(", "2", ")">>)
    /\ news = <<<<"x", "_", "(", "2", ")">>, <<"x", "_", "(", "3", ")">>,
                <<"x", "_", "(", "1", ")">>>>

(***************************************************************************)
(* The history file during undo, checked under Spec.                       *)
(***************************************************************************)
\* C30: the history file is retired as soon as undo begins: once the safety
\* check has passed and the operator has confirmed, the file is gone before
\* the first reverse move, so a crash in the middle of the undo loop leaves
\* no history of before the undo to be loaded at the next start.
C30_Original ==
    (pc = "undo" \/ (pc = "crashed" /\ crashed_at = "undo")) =>
        ~history_file.exists

(***************************************************************************)
(* The files of the folder during a batch, checked under Spec.             *)
(***************************************************************************)
\* the files of a folder, each known by its identity
Files(f) == {f[n] : n \in {m \in DOMAIN f : f[m] # Dir}}

\* C31: in a batch whose plan passed the conflict detection, as typed or
\* after the automatic resolution, and during which no other program changes
\* the folder, the destination of every move does not exist at the moment of
\* the move; no file is lost, and the folder holds as many files during and
\* after the batch as before it.
C31_NeverOverwrites ==
    /\ [][(pc = "exec" /\ pc' = "exec_write" /\ "external" \notin faults)
            => ~exists(fs, news[processed_count + 1])]_vars
    /\ []((/\ pc \in {"exec", "exec_write"} \/ ExecuteReturned
           /\ "external" \notin faults)
            => /\ Files(fs) = Files(fs_before)
               /\ Cardinality({n \in DOMAIN fs : fs[n] # Dir})
                    = Cardinality({n \in DOMAIN fs_before : fs_before[n] # Dir}))

\* a and b were both to be named x; the resolution named them x_(1) and
\* x_(2) and both moves are done
C31_Witness ==
    /\ ExecuteReturned /\ "external" \notin faults
    /\ moved = <<<<<<"x", "_", "(", "1", ")">>, <<"a">>>>,
                 <<<<"x", "_", "(", "2", ")">>, <<"b">>>>>>
    /\ Files(fs) = Files(fs_before)

(***************************************************************************)
(* The history and the Undo button at rest, checked under Spec.            *)
(***************************************************************************)
\* no handler runs and the program has not ended
AtRest == pc = "idle"

\* C32: whenever no rename or undo is in progress, the history in memory
\* equals the content of the history file, a missing file counting as the
\* empty history: after the load at startup, after a batch, after a request
\* that failed validation, was aborted at the conflict prompt or had an empty
\* plan, and after a refused, cancelled or completed undo.
C32_Original == AtRest => FileHolds(rename_history)

\* C37: Undo is offered exactly when there is something to undo: after any
\* sequence of loads at startup, rename requests (completed, failed in
\* validation or aborted at a prompt) and undo requests, the Undo button is
\* enabled if and only if the history in memory is not empty.
C37_Original == AtRest => (undo_enabled <=> rename_history # <<>>)

(***************************************************************************)
(* The history after a click handled inside a loop, checked under          *)
(* SpecReentrant.                                                          *)
(***************************************************************************)
\* every handler has returned, one of them was started while a loop waited,
\* and no move has failed
AllReturnedAfterReentry ==
    /\ pc = "idle" /\ stack = <<>>
    /\ "reentered" \in faults /\ "move" \notin faults

\* C33: when a Rename or Undo click has been handled during the event
\* processing that follows an item of a running loop, then once every
\* handler has returned the history in memory and the history file agree
\* and hold the moves of the rename batch started last, or nothing when
\* these have been undone: the end of the outer loop neither mixes two
\* batches nor erases the record of a batch whose files are still renamed.
C33_Original ==
    AllReturnedAfterReentry =>
        /\ FileHolds(rename_history)
        /\ \/ rename_history = moved
           \/ rename_history = <<>> /\ fs = fs_before

(***************************************************************************)
(* The history file between a move and its write, checked under Spec.      *)
(***************************************************************************)
\* _execute_rename is in its loop, or the program ended there
InExecute ==
    \/ pc \in {"exec", "exec_write"}
    \/ pc = "crashed" /\ crashed_at \in {"exec", "exec_write"}

\* the pairs the history file holds, a missing file holding none
PersistedHistory == IF history_file.exists THEN history_file.content ELSE <<>>

\* the history file can be read and holds the moves done so far but for, at
\* most, the last one
LacksAtMostLast ==
    /\ history_file.exists => history_file.valid
    /\ Len(PersistedHistory) <= Len(moved)
    /\ Len(moved) - Len(PersistedHistory) <= 1
    /\ PersistedHistory = SubSeq(moved, 1, Len(PersistedHistory))

C35_ResolutionFrame ==
    [][(pc = "conflict" /\ pc' = "exec") =>
          /\ origs' = origs
          /\ Len(news') = Len(news)
          /\ \A i \in 1..Len(news) :
                IF i \in DeclaredConflicts(news, fs)
                THEN /\ news'[i] # news[i]
                     /\ news'[i] \in SuffixForms(news[i], news, fs)
                ELSE news'[i] = news[i]]_vars

\* of x.t and x only x is in the folder: the second line alone is renamed
C35_Witness ==
    /\ PlanReturned
    /\ origs = <<<<"a">>, <<"a">>>>
    /\ validated = <<<<"x", ".", "t">>, <<"x">>>>
    /\ news = <<<<"x", ".", "t">>, <<"x", "_", "(", "1", ")">>>>

(***************************************************************************)
(* The empty new name, checked under SpecConflicts.                        *)
(***************************************************************************)
\* C36: no move is attempted toward an empty new name, which would denote
\* the folder itself, also when the removal of forbidden characters leaves a
\* name empty: at the conflict prompt every empty name is among the
\* conflicts, and the list that goes to _execute_rename holds no empty name.
C36_NoEmptyDestination ==
    /\ pc = "conflict" =>
          \A k \in 1..Len(news) :
              news[k] = <<>> => \E c \in 1..Len(conflicts) : conflicts[c] = k
    /\ pc \in {"exec", "exec_write"} =>
          \A k \in 1..Len(news) : news[k] # <<>>

\* the one new name was ":" and its removal left nothing; the resolution
\* has named the file _(1)
C36_Witness ==
    /\ PlanReturned
    /\ validated = <<<<>>>>
    /\ news = <<<<"_", "(", "1", ")">>>>

====
